---- MODULE Spec2Model ----
(***************************************************************************)
(* Render driver of the Tungsten path tracer (core/renderer/Renderer.cpp): *)
(* tile dicing, the uniform / adaptive sample budget of generateWork, the  *)
(* per-tile render loop and the start / abort protocol of a pass.          *)
(*                                                                         *)
(* Floating point: error estimates and adaptive weights are drawn from     *)
(* small naturals (a common unit of error); the quotient                   *)
(* weight*budgetPerTile/totalWeight is kept exact as a numerator over      *)
(* totalWeight, so int(fractionalSamples) is an integer division and the   *)
(* fractional accumulator pixelPdf is a numerator over totalWeight.        *)
(* _sampler.next1D() is a draw from [0,1): the comparison next1D() <       *)
(* pixelPdf is false when pixelPdf <= 0, true when pixelPdf >= 1 and       *)
(* either outcome otherwise.                                               *)
(***************************************************************************)
EXTENDS Integers, Sequences, FiniteSets, TLC

(* Renderer.hpp constants (out-of-class definitions at Renderer.cpp:18-20). *)
TileSize == 16
VarianceTileSize == 4
AdaptiveThreshold == 16

(* Bounds of the model. *)
MaxErr == 2
MaxSppCount == 3
MaxPasses == 2
NumWorkers == 2
NumThreads == 2
MaxCalls == 2
NumTris == 2
MaxShapes == 2
TexW == 3
TexH == 2
USteps == 4
MaxWeight == 2
MaxGridW == 3
MaxGridH == 3

Min(a, b) == IF a < b THEN a ELSE b
Max(a, b) == IF a > b THEN a ELSE b

(***************************************************************************)
(* Renderer::Renderer: the variance grid.                                  *)
(***************************************************************************)
VarianceW(W) == (W + VarianceTileSize - 1) \div VarianceTileSize
VarianceH(H) == (H + VarianceTileSize - 1) \div VarianceTileSize
NumCells(W, H) == VarianceW(W) * VarianceH(H)
Cells(W, H) == 0 .. (NumCells(W, H) - 1)

(* SampleRecord as constructed: no samples taken, none scheduled. *)
NewRecord == [sampleIndex |-> 0, nextSampleCount |-> 0, sampleCount |-> 0,
              adaptiveWeight |-> 0, err |-> 0]

(***************************************************************************)
(* Renderer::diceTiles: tiles in emplace order, y outer, x inner.          *)
(***************************************************************************)
TilesAcross(W) == (W + TileSize - 1) \div TileSize

(* mutant: the tiles of the last column and row are not cut to the image *)
DiceTilesUncut(W, H) ==
    [k \in 0 .. (TilesAcross(W) * TilesAcross(H) - 1) |->
        [x |-> (k % TilesAcross(W)) * TileSize, y |-> (k \div TilesAcross(W)) * TileSize,
         w |-> TileSize, h |-> TileSize]]

DiceTiles(W, H) ==
    [k \in 0 .. (TilesAcross(W) * TilesAcross(H) - 1) |->
        LET x == (k % TilesAcross(W)) * TileSize
            y == (k \div TilesAcross(W)) * TileSize
        IN  [x |-> x, y |-> y, w |-> Min(TileSize, W - x), h |-> Min(TileSize, H - y)]]

(***************************************************************************)
(* Renderer::errorPercentile95                                             *)
(***************************************************************************)
(* mutant: only the errors above 1 are pushed *)
PositiveErrorsAboveOne(recs) == {i \in DOMAIN recs : recs[i].err > 1}

(* errors: the indices of the records whose adaptiveWeight was pushed *)
PositiveErrors(recs) == {i \in DOMAIN recs : recs[i].err > 0}

(* errors[k] after std::sort: the pushed value with at most k pushed values
   below it and more than k pushed values not above it *)
SortedErrorAt(recs, k) ==
    LET errors == PositiveErrors(recs)
    IN  CHOOSE v \in {recs[i].err : i \in errors} :
            /\ Cardinality({i \in errors : recs[i].err < v}) <= k
            /\ Cardinality({i \in errors : recs[i].err <= v}) > k

(* records after the loop of lines 65-69: adaptiveWeight = errorEstimate() *)
LoadWeights(recs) == [i \in DOMAIN recs |-> [recs[i] EXCEPT !.adaptiveWeight = recs[i].err]]

PercentileIndex(n) == (n * 95) \div 100

ErrorPercentile95(recs) ==
    IF PositiveErrors(recs) = {} THEN 0
    ELSE SortedErrorAt(recs, PercentileIndex(Cardinality(PositiveErrors(recs))))

(***************************************************************************)
(* Renderer::dilateAdaptiveWeights: in-place forward then backward pass.   *)
(* wt is the adaptiveWeight field of the records, by record index.         *)
(***************************************************************************)
Weights(recs) == [i \in DOMAIN recs |-> recs[i].adaptiveWeight]

ForwardCell(wt, idx, vw, vh) ==
    LET x == idx % vw
        y == idx \div vw
        below == IF y < vh - 1 THEN Max(wt[idx], wt[idx + vw]) ELSE wt[idx]
    IN  [wt EXCEPT ![idx] = IF x < vw - 1 THEN Max(below, wt[idx + 1]) ELSE below]

(* mutant: the backward pass leaves the cell alone *)
BackwardCellSkipped(wt, idx, vw, vh) == wt

(* mutant: the backward pass reads the cells it has already written *)
BackwardCellTrailing(wt, idx, vw, vh) ==
    LET x == idx % vw
        y == idx \div vw
        below == IF y < vh - 1 THEN Max(wt[idx], wt[idx + vw]) ELSE wt[idx]
    IN  [wt EXCEPT ![idx] = IF x < vw - 1 THEN Max(below, wt[idx + 1]) ELSE below]

BackwardCell(wt, idx, vw, vh) ==
    LET x == idx % vw
        y == idx \div vw
        above == IF y > 0 THEN Max(wt[idx], wt[idx - vw]) ELSE wt[idx]
    IN  [wt EXCEPT ![idx] = IF x > 0 THEN Max(above, wt[idx - 1]) ELSE above]

(* The loops run over the records lo .. hi-1; a range of more than one
   record is run as its first half followed by its second half. *)
Half(lo, hi) == (lo + hi) \div 2

(* F applied to the value of v (v is evaluated before F is entered) *)
Then(v, F(_)) == CHOOSE r \in {F(a) : a \in {v}} : TRUE

(* lines 79-89: idx = lo, lo+1, ..., hi-1 *)
RECURSIVE ForwardPass(_, _, _, _, _)
ForwardPass(wt, lo, hi, vw, vh) ==
    IF hi <= lo THEN wt
    ELSE IF hi = lo + 1 THEN ForwardCell(wt, lo, vw, vh)
    ELSE Then(ForwardPass(wt, lo, Half(lo, hi), vw, vh),
              LAMBDA a : ForwardPass(a, Half(lo, hi), hi, vw, vh))

(* lines 90-100: idx = hi-1, hi-2, ..., lo *)
RECURSIVE BackwardPass(_, _, _, _, _)
BackwardPass(wt, lo, hi, vw, vh) ==
    IF hi <= lo THEN wt
    ELSE IF hi = lo + 1 THEN BackwardCell(wt, lo, vw, vh)
    ELSE Then(BackwardPass(wt, Half(lo, hi), hi, vw, vh),
              LAMBDA a : BackwardPass(a, lo, Half(lo, hi), vw, vh))

DilateAdaptiveWeights(wt, vw, vh) ==
    Then(ForwardPass(wt, 0, vw * vh, vw, vh), LAMBDA a : BackwardPass(a, 0, vw * vh, vw, vh))

(***************************************************************************)
(* Renderer::distributeAdaptiveSamples                                     *)
(***************************************************************************)
(* lines 105-107 *)
RECURSIVE SumWeights(_, _, _)
SumWeights(wt, lo, hi) ==
    IF hi <= lo THEN 0
    ELSE IF hi = lo + 1 THEN wt[lo]
    ELSE SumWeights(wt, lo, Half(lo, hi)) + SumWeights(wt, Half(lo, hi), hi)

(* mutant: the sample held back for the +1 floor is handed out as well *)
AdaptiveBudgetFull(spp, W, H) == spp * W * H

(* line 109 *)
AdaptiveBudget(spp, W, H) == (spp - 1) * W * H
BudgetPerTile(spp, W, H) == AdaptiveBudget(spp, W, H) \div (VarianceTileSize * VarianceTileSize)

(* mutant: the +1 floor dropped *)
UnflooredCount(count) == count

(* nextSampleCount written at line 122 *)
FlooredCount(count) == count + 1

(* outcomes of the comparison  _sampler.next1D() < pixelPdf  (line 118);
   pixelPdf is the numerator pdf over totalWeight *)
DrawBelow(pdf, totalWeight) ==
    IF pdf <= 0 THEN {FALSE}
    ELSE IF pdf >= totalWeight THEN {TRUE}
    ELSE BOOLEAN

(* The body of the loop of lines 114-123 for record i, entered with the
   nextSampleCount array st.cnt and the accumulator st.pixelPdf: the states it
   can leave, one for each outcome of the rounding draw. *)
DistributeRecord(wt, st, i, budgetPerTile, totalWeight) ==
    LET num == wt[i] * budgetPerTile
        adaptiveSamples == num \div totalWeight
        pdf == st.pixelPdf + (num % totalWeight)
    IN  { [cnt |-> [st.cnt EXCEPT ![i] = FlooredCount(adaptiveSamples + (IF d THEN 1 ELSE 0))],
           pixelPdf |-> IF d THEN pdf - totalWeight ELSE pdf]
          : d \in DrawBelow(pdf, totalWeight) }

(* The loop over the records lo .. hi-1, from any of the states sts. *)
RECURSIVE DistributeRange(_, _, _, _, _, _)
DistributeRange(wt, sts, lo, hi, budgetPerTile, totalWeight) ==
    IF hi <= lo THEN sts
    ELSE IF hi = lo + 1
         THEN UNION { DistributeRecord(wt, st, lo, budgetPerTile, totalWeight) : st \in sts }
         ELSE Then(DistributeRange(wt, sts, lo, Half(lo, hi), budgetPerTile, totalWeight),
                   LAMBDA a : DistributeRange(wt, a, Half(lo, hi), hi, budgetPerTile, totalWeight))

(* the nextSampleCount arrays distributeAdaptiveSamples(spp) can leave *)
DistributeAdaptiveSamples(wt, cnt, spp, W, H) ==
    { st.cnt : st \in DistributeRange(wt, {[cnt |-> cnt, pixelPdf |-> 0]}, 0, NumCells(W, H),
                                      BudgetPerTile(spp, W, H),
                                      SumWeights(wt, 0, NumCells(W, H))) }

(***************************************************************************)
(* Renderer::generateWork: the set of (result, records) it can produce.    *)
(***************************************************************************)
(* mutant: sampleIndex is not advanced *)
AdvanceSampleIndexSkipped(recs) == recs

(* lines 128-129 *)
AdvanceSampleIndex(recs) ==
    [i \in DOMAIN recs |-> [recs[i] EXCEPT !.sampleIndex = recs[i].sampleIndex + recs[i].nextSampleCount]]

(* lines 139-140 *)
ClampWeights(wt, maxError) == [i \in DOMAIN wt |-> Min(wt[i], maxError)]

(* mutant: += instead of = *)
UniformCountsAdded(recs, sppCount) ==
    [i \in DOMAIN recs |-> [recs[i] EXCEPT !.nextSampleCount = recs[i].nextSampleCount + sppCount]]

UniformCounts(recs, sppCount) ==
    [i \in DOMAIN recs |-> [recs[i] EXCEPT !.nextSampleCount = sppCount]]

(* mutant: > instead of >= *)
TakesAdaptiveBranchAfter(adaptive, sppFrom) == adaptive /\ sppFrom > AdaptiveThreshold

(* line 134 *)
TakesAdaptiveBranch(adaptive, sppFrom) == adaptive /\ sppFrom >= AdaptiveThreshold

(* the records with adaptiveWeight wt and nextSampleCount cnt *)
Stored(recs, wt, cnt) ==
    [i \in DOMAIN recs |-> [recs[i] EXCEPT !.adaptiveWeight = wt[i], !.nextSampleCount = cnt[i]]]

GenerateWork(recs, sppFrom, sppTo, adaptive, W, H) ==
    LET adv == AdvanceSampleIndex(recs)
        sppCount == sppTo - sppFrom
    IN  IF TakesAdaptiveBranch(adaptive, sppFrom)
        THEN LET maxError == ErrorPercentile95(adv)
                 loaded == LoadWeights(adv)
                 dilated == DilateAdaptiveWeights(ClampWeights(Weights(loaded), maxError),
                                                  VarianceW(W), VarianceH(H))
             IN  IF maxError = 0
                 THEN {[ok |-> FALSE, samples |-> loaded]}
                 ELSE {[ok |-> TRUE, samples |-> Stored(loaded, dilated, cnt)] :
                        cnt \in DistributeAdaptiveSamples(
                                    dilated, [i \in DOMAIN recs |-> recs[i].nextSampleCount],
                                    sppCount, W, H)}
        ELSE {[ok |-> TRUE, samples |-> UniformCounts(adv, sppCount)]}

(***************************************************************************)
(* State.                                                                  *)
(*   w, h        _w, _h: the camera resolution                             *)
(*   enableAdaptive  the scene's useAdaptiveSampling() setting             *)
(*   tiles       _tiles                                                    *)
(*   samples     _samples; field err is the value errorEstimate() returns, *)
(*               sampleCount the number of addSample calls                 *)
(*   touched     records that received addSample since errorEstimate()     *)
(*               was last read: their estimate is any value of 0..MaxErr   *)
(*               at the next read, the others keep theirs                  *)
(*   call        the last startRender / generateWork call and its result   *)
(*               (n counts the calls)                                      *)
(*   hasGroup    _group is set                                             *)
(*   aborted     the task group's abort flag                               *)
(*   task        state of every tile task of the group                     *)
(*   pos         per tile task, the number of pixels it has rendered       *)
(*   cam         the camera's per-pixel sample count, and the number of    *)
(*               addSamples calls made for the pixel                       *)
(*   callbacks   number of completionCallback invocations                  *)
(*   pc          the driving thread: idle, or blocked in _group->wait()    *)
(*   setupLog    per pixel, the sample indices given to sampler.setup      *)
(*   accessedBy  per record, the tile tasks that used it in this pass      *)
(*   sched       per record, nextSampleCount summed over the passes begun  *)
(*   hist        what has happened so far: passes begun, passes in which   *)
(*               abort dropped a tile task, converged returns, tile tasks  *)
(*               that rendered a pixel with the abort flag set             *)
(***************************************************************************)
VARIABLES w, h, enableAdaptive, tiles, samples, touched, call, hasGroup, aborted, task, pos,
          cam, callbacks, pc, setupLog, accessedBy, sched, hist, worker, tileLog, recLog

rendererVars == << w, h, enableAdaptive, tiles, samples, touched, call, hasGroup, aborted, task,
                   pos, cam, callbacks, pc, setupLog, accessedBy, sched, hist, worker, tileLog,
                   recLog >>

(***************************************************************************)
(* State of a bitmap texture (core/materials/BitmapTexture.cpp):           *)
(* _distribution[jacobian] (0: the null pointer, n > 0: the n-th           *)
(* Distribution2D constructed for that jacobian), the number constructed,  *)
(* and the position of each thread inside makeSamplable.                   *)
(***************************************************************************)
VARIABLES texture, texPc

textureVars == << texture, texPc >>

Threads == 1 .. NumThreads
Jacobians == {"MAP_UNIFORM", "MAP_SPHERICAL"}

TextureNew == [distribution |-> [j \in Jacobians |-> 0], built |-> [j \in Jacobians |-> 0]]
OutsideCall == [at |-> "out", jacobian |-> "MAP_UNIFORM", calls |-> 0]

TextureIdle ==
    /\ texture = TextureNew
    /\ texPc = [th \in Threads |-> OutsideCall]

(***************************************************************************)
(* State of a triangle mesh (core/primitives/TriangleMesh.cpp).            *)
(* shape: the current _transform and _verts, as the number of the shape;   *)
(* tfVerts: the shape _tfVerts was computed from, 0 when cleared;          *)
(* geom, intersector: whether the handles are set; totalArea: _totalArea;  *)
(* triSampler: the areas the Distribution1D was built from, << >> for the  *)
(* null pointer; sampledSince: a makeSamplable call returned since the     *)
(* last prepareForRender; overlapped: two makeSamplable calls overlapped.  *)
(* meshPc: the position of each thread inside makeSamplable, its local     *)
(* areas vector, and the _totalArea its last sampling call read (-1: none).*)
(***************************************************************************)
VARIABLES mesh, meshPc

meshVars == << mesh, meshPc >>

Shapes == 1 .. MaxShapes
Tris == 1 .. NumTris

MeshNew == [shape |-> 1, tfVerts |-> 0, geom |-> FALSE, intersector |-> FALSE, totalArea |-> 0,
            triSampler |-> << >>, sampledSince |-> FALSE, overlapped |-> FALSE]
OutsideMesh == [at |-> "out", i |-> 1, areas |-> << >>, calls |-> 0, seen |-> -1]

MeshIdle ==
    /\ mesh = MeshNew
    /\ meshPc = [th \in Threads |-> OutsideMesh]

(***************************************************************************)
(* Numbers of the material and texture code.  A float is modelled by the   *)
(* rational << numerator, denominator >> in lowest terms with a positive   *)
(* denominator; the arithmetic is exact (no rounding).                     *)
(***************************************************************************)
Abs(i) == IF i < 0 THEN -i ELSE i

RECURSIVE GCD(_, _)
GCD(a, b) == IF b = 0 THEN a ELSE GCD(b, a % b)

Rat(n, d) ==
    LET g == GCD(Abs(n), Abs(d))
    IN  IF d < 0 THEN << (-n) \div g, (-d) \div g >> ELSE << n \div g, d \div g >>

RZero == << 0, 1 >>
ROne == << 1, 1 >>
(* a*b and a/b reduce across the operands before they multiply *)
RMul(a, b) ==
    LET g1 == GCD(Abs(a[1]), b[2])
        g2 == GCD(Abs(b[1]), a[2])
    IN  IF a[1] = 0 \/ b[1] = 0 THEN RZero
        ELSE << (a[1] \div g1) * (b[1] \div g2), (a[2] \div g2) * (b[2] \div g1) >>
RDiv(a, b) == RMul(a, Rat(b[2], b[1]))
RAdd(a, b) == Rat(a[1] * b[2] + b[1] * a[2], a[2] * b[2])
RSub(a, b) == Rat(a[1] * b[2] - b[1] * a[2], a[2] * b[2])
RLess(a, b) == a[1] * b[2] < b[1] * a[2]
RLeq(a, b) == a[1] * b[2] <= b[1] * a[2]
(* int(a) of a float a >= 0: truncation *)
RTrunc(a) == a[1] \div a[2]

(***************************************************************************)
(* State of a plastic BSDF and of one scatter event                        *)
(* (core/bsdfs/PlasticBsdf.cpp).  Vectors are kept by their z component    *)
(* (the cosine to the normal), colours by one channel.                     *)
(*   bsdf      _scaledSigmaA in units of ln 2, _avgTransmittance and the   *)
(*             value albedo(event.info) returns                            *)
(*   event     the SurfaceScatterEvent: wi, requestedLobe, the value the   *)
(*             sampler's next1D() returns, the direction its               *)
(*             cosineHemisphere draw gives, and the fields sample writes   *)
(*   returned  what sample ("none": not called), eval and pdf returned     *)
(*             for the event                                               *)
(***************************************************************************)
VARIABLES bsdf, event, returned

plasticVars == << bsdf, event, returned >>

(***************************************************************************)
(* One importance-sampled lookup of a bitmap texture                       *)
(* (BitmapTexture::sample followed by BitmapTexture::pdf).                 *)
(*   texels     weight(x, y) of the bitmap, by y*_w + x                    *)
(*   jacobian, u  the arguments of sample                                  *)
(*   row, column  the cell Distribution2D::warp selected                   *)
(*   uv         what sample returned                                       *)
(*   pdfRow, pdfColumn, pdf  the cell pdf(jacobian, uv) looked up and the  *)
(*              value it returned                                          *)
(*   at         "none", "loaded" (bitmap loaded), "sampled", "pdf"         *)
(***************************************************************************)
VARIABLES lookup

(***************************************************************************)
(* The adaptiveWeight grid of one dilateAdaptiveWeights call: its size,    *)
(* the weights before the call and after it.                               *)
(***************************************************************************)
VARIABLES grid

(* the frame of each component *)
notTexture == << rendererVars, meshVars, plasticVars, lookup, grid >>
notMesh == << rendererVars, textureVars, plasticVars, lookup, grid >>

(* BsdfLobes: the lobes a mask can hold *)
Lobes == {"SpecularReflectionLobe", "DiffuseReflectionLobe", "GlossyReflectionLobe"}

(* PlasticBsdf::PlasticBsdf: _thickness = 0, _sigmaA = 0; white albedo *)
PlasticNew == [scaledSigmaA |-> 0, avgTransmittance |-> ROne, albedo |-> ROne]
(* a SurfaceScatterEvent nothing was written to *)
NoEvent == [wi |-> ROne, requestedLobe |-> {}, next1D |-> RZero, next2D |-> ROne,
            wo |-> RZero, pdf |-> RZero, throughput |-> RZero, sampledLobe |-> {}]
NotCalled == [sample |-> "none", evalCalled |-> FALSE, eval |-> RZero, pdfCalled |-> FALSE,
              pdf |-> RZero]

PlasticIdle ==
    /\ bsdf = PlasticNew
    /\ event = NoEvent
    /\ returned = NotCalled

(* no lookup made *)
NoLookup == [at |-> "none", texels |-> << >>, jacobian |-> "MAP_UNIFORM", u |-> << RZero, RZero >>,
             uv |-> << RZero, RZero >>, row |-> 0, column |-> 0, pdfRow |-> 0, pdfColumn |-> 0,
             pdf |-> RZero]
LookupIdle == lookup = NoLookup

(* no dilateAdaptiveWeights call made *)
NoGrid == [vw |-> 0, vh |-> 0, before |-> << >>, after |-> << >>, dilated |-> FALSE]
GridIdle == grid = NoGrid

(* the components other than the render driver, and their constructed state *)
rest == << textureVars, meshVars, plasticVars, lookup, grid >>
RestIdle == TextureIdle /\ MeshIdle /\ PlasticIdle /\ LookupIdle /\ GridIdle

vars == << rendererVars, rest >>

Pixels == 0 .. (w * h - 1)
TileIds == DOMAIN tiles

(* mutant: cells one pixel wider than VarianceTileSize *)
VariancePixelIndexWide(px, py, W) ==
    (px \div (VarianceTileSize + 1)) + (py \div VarianceTileSize) * VarianceW(W)

(* mutant: the cell grid is shifted by one pixel *)
VariancePixelIndexShifted(px, py, W) ==
    ((px + 1) \div VarianceTileSize) + (py \div VarianceTileSize) * VarianceW(W)

(* line 159 *)
VariancePixelIndex(px, py, W) ==
    (px \div VarianceTileSize) + (py \div VarianceTileSize) * VarianceW(W)

(* line 158 *)
PixelIndex(px, py, W) == px + py * W

CellOfPixel(p) == VariancePixelIndex(p % w, p \div w, w)

NoCall == [n |-> 0, sppFrom |-> 0, sppTo |-> 0, ok |-> FALSE]
NoHist == [begun |-> 0, cut |-> 0, converged |-> 0, late |-> {}]

(* The state Renderer::Renderer leaves for a W x H camera, but for _samples. *)
Built(W, H) ==
    /\ w = W
    /\ h = H
    /\ tiles = DiceTiles(W, H)
    /\ touched = {}
    /\ call = NoCall
    /\ hasGroup = FALSE
    /\ aborted = FALSE
    /\ task = [t \in DOMAIN DiceTiles(W, H) |-> "none"]
    /\ pos = [t \in DOMAIN DiceTiles(W, H) |-> 0]
    /\ cam = [p \in 0 .. (W * H - 1) |-> [count |-> 0, splats |-> 0]]
    /\ callbacks = 0
    /\ pc = "idle"
    /\ setupLog = [p \in 0 .. (W * H - 1) |-> << >>]
    /\ accessedBy = [c \in Cells(W, H) |-> {}]
    /\ sched = [c \in Cells(W, H) |-> 0]
    /\ hist = NoHist
    /\ worker = [t \in DOMAIN DiceTiles(W, H) |-> 0]
    /\ tileLog = [t \in DOMAIN DiceTiles(W, H) |-> << >>]
    /\ recLog = [c \in Cells(W, H) |-> << >>]

Constructed(W, H) ==
    /\ Built(W, H)
    /\ samples = [c \in Cells(W, H) |-> NewRecord]

(***************************************************************************)
(* The render driver.                                                      *)
(***************************************************************************)
DriverSizes == {<< 3, 2 >>, << 17, 1 >>, << 1, 17 >>}

Init ==
    /\ enableAdaptive \in BOOLEAN
    /\ \E sz \in DriverSizes : Constructed(sz[1], sz[2])
    /\ RestIdle

Running(t) == task[t] = "running"
GroupDrained == \A t \in TileIds : task[t] \in {"none", "done", "dropped"}

(* errorEstimate() as generateWork will read it: the records that took
   samples since the last read share one new estimate e *)
ErrorReadings ==
    { [c \in DOMAIN samples |->
          IF c \in touched THEN [samples[c] EXCEPT !.err = e] ELSE samples[c]] :
        e \in 0 .. MaxErr }

(* Renderer::startRender, called while no pass is running. *)
StartRender ==
    /\ pc = "idle"
    /\ GroupDrained
    /\ call.n < MaxPasses
    /\ \E sppFrom \in {0, AdaptiveThreshold}, sppCount \in 1 .. MaxSppCount,
          recs \in ErrorReadings :
         \E r \in GenerateWork(recs, sppFrom, sppFrom + sppCount, enableAdaptive, w, h) :
            /\ samples' = r.samples
            /\ touched' = {}
            /\ call' = [n |-> call.n + 1, sppFrom |-> sppFrom, sppTo |-> sppFrom + sppCount,
                        ok |-> r.ok]
            /\ IF r.ok
               THEN /\ hasGroup' = TRUE
                    /\ aborted' = FALSE
                    /\ task' = [t \in TileIds |-> "pending"]
                    /\ pos' = [t \in TileIds |-> 0]
                    /\ accessedBy' = [c \in DOMAIN samples |-> {}]
                    /\ sched' = [c \in DOMAIN samples |-> sched[c] + r.samples[c].nextSampleCount]
                    /\ hist' = [hist EXCEPT !.begun = @ + 1, !.late = {}]
                    /\ worker' = [t \in TileIds |-> 0]
                    /\ tileLog' = [t \in TileIds |-> << >>]
                    /\ recLog' = [c \in DOMAIN samples |-> << >>]
                    /\ UNCHANGED callbacks
               ELSE /\ callbacks' = callbacks + 1
                    /\ hist' = [hist EXCEPT !.converged = hist.converged + 1]
                    /\ UNCHANGED << hasGroup, aborted, task, pos, accessedBy, sched, worker,
                                    tileLog, recLog >>
    /\ UNCHANGED << w, h, enableAdaptive, tiles, cam, pc, setupLog >>

(* the pool workers that are not inside a task of the group *)
FreeWorkers == (1 .. NumWorkers) \ {worker[u] : u \in {v \in TileIds : Running(v)}}

(* A free pool worker takes the next tile task of the group; its id is the
   first argument of renderTile. *)
StartTile(t) ==
    /\ task[t] = "pending"
    /\ ~aborted
    /\ \A u \in TileIds : u < t => task[u] # "pending"
    /\ \E id \in FreeWorkers : worker' = [worker EXCEPT ![t] = id]
    /\ task' = [task EXCEPT ![t] = "running"]
    /\ UNCHANGED << w, h, enableAdaptive, tiles, samples, touched, call, hasGroup, aborted, pos,
                    cam, callbacks, pc, setupLog, accessedBy, sched, hist, tileLog, recLog >>

TilePixels(t) == tiles[t].w * tiles[t].h

(* mutant: the loop counter is not added *)
SetupIndicesFixed(record) ==
    [i \in 1 .. record.nextSampleCount |-> record.sampleIndex]

(* sample indices of lines 164-165: record.sampleIndex + i, i = 0 .. spp-1 *)
SetupIndices(record) ==
    [i \in 1 .. record.nextSampleCount |-> record.sampleIndex + (i - 1)]

(* the setup calls of lines 164-165 for one pixel, each followed by a
   traceSample whose estimate goes to record.addSample: the pixel index and
   the sample indices in the order of the calls *)
SetupCalls(pixelIndex, record) == << pixelIndex, SetupIndices(record) >>

(* One iteration of the pixel loops of renderTile (lines 156-173). *)
RenderPixel(t) ==
    LET px == tiles[t].x + (pos[t] % tiles[t].w)
        py == tiles[t].y + (pos[t] \div tiles[t].w)
        pixelIndex == PixelIndex(px, py, w)
        variancePixelIndex == VariancePixelIndex(px, py, w)
        record == samples[variancePixelIndex]
        spp == record.nextSampleCount
    IN  /\ setupLog' = [setupLog EXCEPT ![pixelIndex] = @ \o SetupIndices(record)]
        /\ samples' = [samples EXCEPT ![variancePixelIndex].sampleCount = @ + spp]
        /\ touched' = IF spp > 0 THEN touched \cup {variancePixelIndex} ELSE touched
        /\ cam' = [cam EXCEPT ![pixelIndex] = [count |-> @.count + spp, splats |-> @.splats + 1]]
        /\ accessedBy' = [accessedBy EXCEPT ![variancePixelIndex] = @ \cup {t}]
        /\ pos' = [pos EXCEPT ![t] = @ + 1]
        /\ hist' = IF aborted THEN [hist EXCEPT !.late = @ \cup {t}] ELSE hist
        /\ tileLog' = [tileLog EXCEPT ![t] = Append(@, SetupCalls(pixelIndex, record))]
        /\ recLog' = [recLog EXCEPT ![variancePixelIndex] = Append(@, SetupCalls(pixelIndex, record))]
        /\ UNCHANGED << task, callbacks, worker >>

(* renderTile returns; the worker that drains the group runs the callback. *)
ReturnFromTile(t) ==
    /\ task' = [task EXCEPT ![t] = "done"]
    /\ IF \A u \in TileIds \ {t} : task[u] \in {"done", "dropped"}
       THEN callbacks' = callbacks + 1
       ELSE UNCHANGED callbacks
    /\ worker' = [worker EXCEPT ![t] = 0]
    /\ UNCHANGED << samples, touched, cam, setupLog, accessedBy, pos, hist, tileLog, recLog >>

(* mutant: the pixel loop leaves the tile once the abort flag is set *)
RenderTileCancellable(t) ==
    /\ Running(t)
    /\ IF pos[t] < TilePixels(t) /\ ~aborted THEN RenderPixel(t) ELSE ReturnFromTile(t)
    /\ UNCHANGED << w, h, enableAdaptive, tiles, call, hasGroup, aborted, pc, sched >>

(* Renderer::renderTile, one step of a tile task in flight. *)
RenderTile(t) ==
    /\ Running(t)
    /\ IF pos[t] < TilePixels(t) THEN RenderPixel(t) ELSE ReturnFromTile(t)
    /\ UNCHANGED << w, h, enableAdaptive, tiles, call, hasGroup, aborted, pc, sched >>

(* _group-> on the pointer no startRender has set yet (lines 194, 199): the
   call dereferences a null pointer; the process faults, or the call happens
   to return with nothing changed. *)
NullGroupDeref ==
    /\ ~hasGroup
    /\ pc' \in {"crashed", "idle"}
    /\ UNCHANGED << w, h, enableAdaptive, tiles, samples, touched, call, hasGroup, aborted, task, pos,
                    cam, callbacks, setupLog, accessedBy, sched, hist,
                          worker, tileLog, recLog >>

(* _group->abort() of line 199: TaskGroup::abort drops the pending tasks. *)
AbortGroup ==
    /\ hasGroup
    /\ aborted' = TRUE
    /\ task' = [t \in TileIds |-> IF task[t] = "pending" THEN "dropped" ELSE task[t]]
    /\ IF \E t \in TileIds : task[t] = "pending"
       THEN /\ hist' = [hist EXCEPT !.cut = @ + 1]
            /\ callbacks' = IF \E t \in TileIds : Running(t) THEN callbacks ELSE callbacks + 1
       ELSE UNCHANGED << hist, callbacks >>
    /\ UNCHANGED << w, h, enableAdaptive, tiles, samples, touched, call, hasGroup, pos, cam,
                    setupLog, accessedBy, sched, worker, tileLog, recLog >>

(* mutant: abortRender returns without waiting for the group *)
AbortRenderNoWait ==
    /\ pc = "idle"
    /\ \/ NullGroupDeref
       \/ AbortGroup /\ pc' = "idle"

(* Renderer::abortRender up to its wait. *)
AbortRender ==
    /\ pc = "idle"
    /\ \/ NullGroupDeref
       \/ AbortGroup /\ pc' = "abortWait"

(* Renderer::~Renderer up to the wait of its abortRender; the owner destroys
   the renderer between passes. *)
Destructor ==
    /\ pc = "idle"
    /\ GroupDrained
    /\ \/ NullGroupDeref
       \/ AbortGroup /\ pc' = "dtorWait"

(* Renderer::waitForCompletion up to its wait. *)
WaitForCompletion ==
    /\ pc = "idle"
    /\ \/ NullGroupDeref
       \/ /\ hasGroup
          /\ ~GroupDrained
          /\ pc' = "wait"
          /\ UNCHANGED << w, h, enableAdaptive, tiles, samples, touched, call, hasGroup, aborted,
                          task, pos, cam, callbacks, setupLog, accessedBy, sched, hist,
                          worker, tileLog, recLog >>

(* _group->wait() returns once the group has drained. *)
WaitReturns ==
    /\ pc \in {"wait", "abortWait", "dtorWait"}
    /\ GroupDrained
    /\ pc' = IF pc = "dtorWait" THEN "destroyed" ELSE "idle"
    /\ UNCHANGED << w, h, enableAdaptive, tiles, samples, touched, call, hasGroup, aborted, task, pos,
                    cam, callbacks, setupLog, accessedBy, sched, hist,
                          worker, tileLog, recLog >>

Next ==
    \/ StartRender /\ UNCHANGED rest
    \/ \E t \in TileIds : StartTile(t) /\ UNCHANGED rest
    \/ \E t \in TileIds : RenderTile(t) /\ UNCHANGED rest
    \/ AbortRender /\ UNCHANGED rest
    \/ Destructor /\ UNCHANGED rest
    \/ WaitForCompletion /\ UNCHANGED rest
    \/ WaitReturns /\ UNCHANGED rest

Spec == Init /\ [][Next]_vars

(***************************************************************************)
(* generateWork on its own: a renderer whose records hold any previous     *)
(* contents and error estimates, and one call of generateWork.             *)
(***************************************************************************)
WorkWidths == {1, 4, 5, 8, 9, 12}
WorkHeights == {1, 4, 5}

(* sampleIndex and nextSampleCount left by earlier passes *)
PreviousPasses == {<< 0, AdaptiveThreshold >>, << AdaptiveThreshold, 2 >>}

(* pixels of the image in variance cell c *)
PixelsInCell(W, H, c) ==
    Min(VarianceTileSize, W - (c % VarianceW(W)) * VarianceTileSize)
        * Min(VarianceTileSize, H - (c \div VarianceW(W)) * VarianceTileSize)

RecordsWith(W, H, prev, e) ==
    [c \in Cells(W, H) |->
        [NewRecord EXCEPT !.sampleIndex = prev[1], !.nextSampleCount = prev[2],
                          !.sampleCount = (prev[1] + prev[2]) * PixelsInCell(W, H, c),
                          !.err = e[c]]]

(* spec.md section 8, scenario 4: 32 x 32 pixels, one record with error
   estimate 10, the other 63 with 0.01 (in units of 0.01) *)
HotCellErrors(hot) == [c \in Cells(32, 32) |-> IF c = hot THEN 1000 ELSE 1]

InitWork ==
    /\ RestIdle
    /\ \/ /\ enableAdaptive \in BOOLEAN
          /\ \E W \in WorkWidths, H \in WorkHeights, prev \in PreviousPasses :
               \E e \in [Cells(W, H) -> 0 .. MaxErr] :
                  /\ Built(W, H)
                  /\ samples = RecordsWith(W, H, prev, e)
       \/ /\ enableAdaptive = TRUE
          /\ Built(32, 32)
          /\ \E hot \in Cells(32, 32) :
               samples = RecordsWith(32, 32, << 0, AdaptiveThreshold >>, HotCellErrors(hot))

SppCounts == (1 .. MaxSppCount) \cup {AdaptiveThreshold}

(* Renderer::generateWork(sppFrom, sppTo) *)
GenerateWorkCall ==
    /\ call.n = 0
    /\ \E sppFrom \in {0, AdaptiveThreshold}, sppCount \in SppCounts :
         \E r \in GenerateWork(samples, sppFrom, sppFrom + sppCount, enableAdaptive, w, h) :
            /\ samples' = r.samples
            /\ call' = [n |-> 1, sppFrom |-> sppFrom, sppTo |-> sppFrom + sppCount, ok |-> r.ok]
    /\ UNCHANGED << w, h, enableAdaptive, tiles, touched, hasGroup, aborted, task, pos,
                    cam, callbacks, pc, setupLog, accessedBy, sched, hist, worker, tileLog,
                    recLog >>

NextWork == GenerateWorkCall /\ UNCHANGED rest

SpecWork == InitWork /\ [][NextWork]_vars

(***************************************************************************)
(* BitmapTexture::makeSamplable called from several threads.               *)
(***************************************************************************)
(* a renderer that is constructed and left alone *)
RendererIdle ==
    /\ enableAdaptive = FALSE
    /\ Constructed(3, 2)

(* A thread calls makeSamplable(jacobian). *)
MakeSamplableEnter(th, jacobian) ==
    /\ texPc[th].at = "out"
    /\ texPc[th].calls < MaxCalls
    /\ texPc' = [texPc EXCEPT ![th] = [at |-> "check", jacobian |-> jacobian,
                                       calls |-> texPc[th].calls + 1]]
    /\ UNCHANGED texture

(* lines 321-322: return if the distribution is there. *)
MakeSamplableCheck(th) ==
    /\ texPc[th].at = "check"
    /\ texPc' = [texPc EXCEPT ![th] =
                    [@ EXCEPT !.at = IF texture.distribution[texPc[th].jacobian] # 0
                                     THEN "out" ELSE "build"]]
    /\ UNCHANGED texture

(* lines 324-339: build the weights, construct the Distribution2D and store it
   in _distribution[jacobian]. *)
MakeSamplableBuild(th) ==
    /\ texPc[th].at = "build"
    /\ LET jacobian == texPc[th].jacobian
           n == texture.built[jacobian] + 1
       IN  texture' = [distribution |-> [texture.distribution EXCEPT ![jacobian] = n],
                       built |-> [texture.built EXCEPT ![jacobian] = n]]
    /\ texPc' = [texPc EXCEPT ![th] = [@ EXCEPT !.at = "out"]]

NextTexture ==
    \/ \E th \in Threads, jacobian \in Jacobians :
          MakeSamplableEnter(th, jacobian) /\ UNCHANGED notTexture
    \/ \E th \in Threads : MakeSamplableCheck(th) /\ UNCHANGED notTexture
    \/ \E th \in Threads : MakeSamplableBuild(th) /\ UNCHANGED notTexture

InitTexture == RendererIdle /\ RestIdle

SpecTexture == InitTexture /\ [][NextTexture]_vars

(***************************************************************************)
(* TriangleMesh: prepareForRender / cleanupAfterRender on the owner's      *)
(* thread, makeSamplable and the sampling queries on any thread.           *)
(***************************************************************************)
(* MathUtil::triangleArea of triangle i of the mesh in shape sh *)
TriangleArea(sh, i) == IF i = 1 THEN sh ELSE i + 1

RECURSIVE SumAreas(_, _)
SumAreas(sh, n) == IF n = 0 THEN 0 ELSE SumAreas(sh, n - 1) + TriangleArea(sh, n)

AreasOf(sh) == [i \in Tris |-> TriangleArea(sh, i)]

NoThreadInMesh == \A th \in Threads : meshPc[th].at = "out"

(* the owner edits the transform or the vertices between renders *)
ChangeShape ==
    /\ NoThreadInMesh
    /\ mesh.tfVerts = 0
    /\ \E sh \in Shapes \ {mesh.shape} : mesh' = [mesh EXCEPT !.shape = sh]
    /\ UNCHANGED meshPc

(* TriangleMesh::prepareForRender (lines 459-504) *)
PrepareForRender ==
    /\ NoThreadInMesh
    /\ mesh.tfVerts = 0
    /\ mesh' = [mesh EXCEPT !.geom = TRUE, !.intersector = TRUE, !.tfVerts = mesh.shape,
                            !.totalArea = SumAreas(mesh.shape, NumTris),
                            !.sampledSince = FALSE]
    /\ UNCHANGED meshPc

(* TriangleMesh::cleanupAfterRender (lines 506-513) *)
CleanupAfterRender ==
    /\ NoThreadInMesh
    /\ mesh.tfVerts # 0
    /\ mesh' = [mesh EXCEPT !.geom = FALSE, !.intersector = FALSE, !.tfVerts = 0]
    /\ UNCHANGED meshPc

(* A thread calls makeSamplable on the prepared mesh. *)
MeshMakeSamplableEnter(th) ==
    /\ meshPc[th].at = "out"
    /\ meshPc[th].calls < MaxCalls
    /\ mesh.tfVerts # 0
    /\ meshPc' = [meshPc EXCEPT ![th] = [@ EXCEPT !.at = "check", !.calls = @ + 1]]
    /\ mesh' = [mesh EXCEPT !.overlapped = @ \/ ~NoThreadInMesh]

(* lines 367-368 *)
MeshMakeSamplableCheck(th) ==
    /\ meshPc[th].at = "check"
    /\ IF mesh.triSampler # << >>
       THEN /\ meshPc' = [meshPc EXCEPT ![th] = [@ EXCEPT !.at = "out"]]
            /\ mesh' = [mesh EXCEPT !.sampledSince = TRUE]
       ELSE /\ meshPc' = [meshPc EXCEPT ![th] = [@ EXCEPT !.at = "zero"]]
            /\ UNCHANGED mesh

(* lines 370-371: _totalArea = 0.0f *)
MeshMakeSamplableZero(th) ==
    /\ meshPc[th].at = "zero"
    /\ mesh' = [mesh EXCEPT !.totalArea = 0]
    /\ meshPc' = [meshPc EXCEPT ![th] = [@ EXCEPT !.at = "sum", !.i = 1, !.areas = << >>]]

(* lines 372-378, one iteration: areas[i] and _totalArea += areas[i] *)
MeshMakeSamplableSum(th) ==
    /\ meshPc[th].at = "sum"
    /\ meshPc[th].i <= NumTris
    /\ LET area == TriangleArea(mesh.tfVerts, meshPc[th].i)
       IN  /\ mesh' = [mesh EXCEPT !.totalArea = @ + area]
           /\ meshPc' = [meshPc EXCEPT ![th] =
                            [@ EXCEPT !.i = @ + 1, !.areas = Append(@, area)]]

(* line 379: _triSampler.reset(new Distribution1D(areas)) *)
MeshMakeSamplablePublish(th) ==
    /\ meshPc[th].at = "sum"
    /\ meshPc[th].i > NumTris
    /\ mesh' = [mesh EXCEPT !.triSampler = meshPc[th].areas, !.sampledSince = TRUE]
    /\ meshPc' = [meshPc EXCEPT ![th] = [@ EXCEPT !.at = "out", !.areas = << >>, !.i = 1]]

(* sampleInboundDirection / sampleOutboundDirection (lines 388-431): warp on
   the table that is there, then the pdf from _totalArea *)
SampleDirection(th) ==
    /\ meshPc[th].at = "out"
    /\ mesh.tfVerts # 0
    /\ mesh.triSampler # << >>
    /\ meshPc[th].seen # mesh.totalArea
    /\ meshPc' = [meshPc EXCEPT ![th] = [@ EXCEPT !.seen = mesh.totalArea]]
    /\ UNCHANGED mesh

NextMesh ==
    \/ ChangeShape /\ UNCHANGED notMesh
    \/ PrepareForRender /\ UNCHANGED notMesh
    \/ CleanupAfterRender /\ UNCHANGED notMesh
    \/ \E th \in Threads : MeshMakeSamplableEnter(th) /\ UNCHANGED notMesh
    \/ \E th \in Threads : MeshMakeSamplableCheck(th) /\ UNCHANGED notMesh
    \/ \E th \in Threads : MeshMakeSamplableZero(th) /\ UNCHANGED notMesh
    \/ \E th \in Threads : MeshMakeSamplableSum(th) /\ UNCHANGED notMesh
    \/ \E th \in Threads : MeshMakeSamplablePublish(th) /\ UNCHANGED notMesh
    \/ \E th \in Threads : SampleDirection(th) /\ UNCHANGED notMesh

InitMesh == RendererIdle /\ RestIdle

SpecMesh == InitMesh /\ [][NextMesh]_vars

(***************************************************************************)
(* PlasticBsdf (core/bsdfs/PlasticBsdf.cpp): sample, eval, pdf.            *)
(***************************************************************************)
(* _ior(1.5f) and eta = 1.0f/_ior *)
Ior == << 3, 2 >>
Eta == RDiv(ROne, Ior)
(* INV_PI, by the rational 7/22 *)
InvPi == << 7, 22 >>
(* _diffuseFresnel = Fresnel::computeDiffuseFresnel(_ior, 1000000), about 0.09 *)
DiffuseFresnel == << 1, 10 >>

(* the cosines directions are drawn from, and the values of wi.z *)
Cosines == {<< 1, 2 >>, ROne}
WiValues == Cosines \cup {RZero, << -1, 2 >>}
(* the values the sampler's next1D() returns *)
Next1DValues == {RZero, << 1, 2 >>}
(* the values of _scaledSigmaA (in units of ln 2) and of albedo(event.info) *)
SigmaValues == {0, 1}
AlbedoValues == {<< 1, 2 >>, ROne}

(* Fresnel::dielectricReflectance: ((1 - eta)/(1 + eta))^2 at normal
   incidence; at the cosine 1/2 the value for ior 1.5 is about 1/11 *)
DielectricReflectance(eta, cosThetaI) ==
    IF cosThetaI = ROne
    THEN RMul(RDiv(RSub(ROne, eta), RAdd(ROne, eta)), RDiv(RSub(ROne, eta), RAdd(ROne, eta)))
    ELSE << 1, 11 >>

(* std::exp of x*ln 2 for an integer x <= 0 *)
ExpLn2(x) == Rat(1, 2 ^ (-x[1]))

(* SampleWarp::cosineHemispherePdf *)
CosineHemispherePdf(wo) == RMul(wo, InvPi)

(* PlasticBsdf::init, lines 20-21 *)
PlasticInit(sigma, albedo) ==
    [scaledSigmaA |-> sigma, avgTransmittance |-> ExpLn2(<< -2 * sigma, 1 >>), albedo |-> albedo]

(* lines 65-68 (and 132-135) *)
SpecularProbability(b, wi) ==
    LET Fi == DielectricReflectance(Eta, wi)
        substrateWeight == RMul(b.avgTransmittance, RSub(ROne, Fi))
        specularWeight == Fi
    IN  RDiv(specularWeight, RAdd(specularWeight, substrateWeight))

(* diffuseAlbedo/(1.0f - diffuseAlbedo*_diffuseFresnel) *)
AlbedoTerm(b) == RDiv(b.albedo, RSub(ROne, RMul(b.albedo, DiffuseFresnel)))

(* std::exp(_scaledSigmaA*(-1.0f/wo.z() - 1.0f/wi.z())) *)
Absorption(b, wi, wo) ==
    ExpLn2(RMul(<< b.scaledSigmaA, 1 >>, RSub(RSub(RZero, RDiv(ROne, wo)), RDiv(ROne, wi))))

(* line 70 *)
TakesSpecularBranch(e, specularProbability) ==
    /\ "SpecularReflectionLobe" \in e.requestedLobe
    /\ (RLess(e.next1D, specularProbability) \/ "DiffuseReflectionLobe" \notin e.requestedLobe)

(* lines 55-96: the value returned and the event as sample leaves it *)
PlasticSample(b, e) ==
    IF RLeq(e.wi, RZero) THEN [ret |-> FALSE, event |-> e]
    ELSE
      LET sampleR == "SpecularReflectionLobe" \in e.requestedLobe
          sampleT == "DiffuseReflectionLobe" \in e.requestedLobe
          Fi == DielectricReflectance(Eta, e.wi)
          specularProbability == SpecularProbability(b, e.wi)
          wo == e.next2D
          Fo == DielectricReflectance(Eta, wo)
          plain == RMul(RMul(RMul(RSub(ROne, Fi), RSub(ROne, Fo)), RMul(Eta, Eta)), AlbedoTerm(b))
          absorbed == IF b.scaledSigmaA > 0 THEN RMul(plain, Absorption(b, e.wi, wo)) ELSE plain
          cosPdf == CosineHemispherePdf(wo)
      IN  IF TakesSpecularBranch(e, specularProbability)
          THEN [ret |-> TRUE,
                event |-> [e EXCEPT !.wo = e.wi,
                                    !.pdf = RZero,
                                    !.throughput = IF sampleT THEN RDiv(Fi, specularProbability)
                                                   ELSE Fi,
                                    !.sampledLobe = {"SpecularReflectionLobe"}]]
          ELSE [ret |-> TRUE,
                event |-> [e EXCEPT !.wo = wo,
                                    !.pdf = IF sampleR
                                            THEN RMul(cosPdf, RSub(ROne, specularProbability))
                                            ELSE cosPdf,
                                    !.throughput = IF sampleR
                                                   THEN RDiv(absorbed, RSub(ROne, specularProbability))
                                                   ELSE absorbed,
                                    !.sampledLobe = {"DiffuseReflectionLobe"}]]

(* mutant: the absorption of the slab is left out of eval *)
PlasticEvalNoAbsorption(b, e) ==
    IF "DiffuseReflectionLobe" \notin e.requestedLobe THEN RZero
    ELSE IF RLeq(e.wi, RZero) \/ RLeq(e.wo, RZero) THEN RZero
    ELSE
      LET Fi == DielectricReflectance(Eta, e.wi)
          Fo == DielectricReflectance(Eta, e.wo)
      IN  RMul(RMul(RMul(RMul(RMul(RSub(ROne, Fi), RSub(ROne, Fo)), RMul(Eta, Eta)), e.wo), InvPi),
               AlbedoTerm(b))

(* lines 98-117 *)
PlasticEval(b, e) ==
    IF "DiffuseReflectionLobe" \notin e.requestedLobe THEN RZero
    ELSE IF RLeq(e.wi, RZero) \/ RLeq(e.wo, RZero) THEN RZero
    ELSE
      LET Fi == DielectricReflectance(Eta, e.wi)
          Fo == DielectricReflectance(Eta, e.wo)
          brdf == RMul(RMul(RMul(RMul(RMul(RSub(ROne, Fi), RSub(ROne, Fo)), RMul(Eta, Eta)), e.wo),
                            InvPi),
                       AlbedoTerm(b))
      IN  IF b.scaledSigmaA > 0 THEN RMul(brdf, Absorption(b, e.wi, e.wo)) ELSE brdf

(* mutant: the pdf is not scaled by the probability of the diffuse branch *)
PlasticPdfUnscaled(b, e) ==
    IF RLeq(e.wi, RZero) \/ RLeq(e.wo, RZero) THEN RZero
    ELSE IF "DiffuseReflectionLobe" \notin e.requestedLobe THEN RZero
    ELSE CosineHemispherePdf(e.wo)

(* lines 119-139 *)
PlasticPdf(b, e) ==
    IF RLeq(e.wi, RZero) \/ RLeq(e.wo, RZero) THEN RZero
    ELSE
      LET sampleR == "SpecularReflectionLobe" \in e.requestedLobe
          sampleT == "DiffuseReflectionLobe" \in e.requestedLobe
          pdf == CosineHemispherePdf(e.wo)
      IN  IF ~sampleT THEN RZero
          ELSE IF sampleR THEN RMul(pdf, RSub(ROne, SpecularProbability(b, e.wi)))
          ELSE pdf

(* PlasticBsdf::fromJson: the parameters of the material, before any event *)
FromJson ==
    /\ returned = NotCalled
    /\ bsdf = PlasticNew
    /\ \E sigma \in SigmaValues, albedo \in AlbedoValues : bsdf' = PlasticInit(sigma, albedo)
    /\ UNCHANGED << event, returned >>

(* a caller fills a scatter event and calls sample *)
SampleCall ==
    /\ returned.sample = "none"
    /\ \E wi \in WiValues, requestedLobe \in SUBSET Lobes, u \in Next1DValues, wo \in Cosines :
          LET e == [NoEvent EXCEPT !.wi = wi, !.requestedLobe = requestedLobe,
                                   !.next1D = u, !.next2D = wo]
              r == PlasticSample(bsdf, e)
          IN  /\ event' = r.event
              /\ returned' = [returned EXCEPT !.sample = IF r.ret THEN "true" ELSE "false"]
    /\ UNCHANGED bsdf

(* eval and pdf for the event as sample left it *)
EvalCall ==
    /\ returned.sample # "none"
    /\ ~returned.evalCalled
    /\ returned' = [returned EXCEPT !.evalCalled = TRUE, !.eval = PlasticEval(bsdf, event)]
    /\ UNCHANGED << bsdf, event >>

PdfCall ==
    /\ returned.sample # "none"
    /\ ~returned.pdfCalled
    /\ returned' = [returned EXCEPT !.pdfCalled = TRUE, !.pdf = PlasticPdf(bsdf, event)]
    /\ UNCHANGED << bsdf, event >>

notPlastic == << rendererVars, textureVars, meshVars, lookup, grid >>

NextPlastic ==
    \/ FromJson /\ UNCHANGED notPlastic
    \/ SampleCall /\ UNCHANGED notPlastic
    \/ EvalCall /\ UNCHANGED notPlastic
    \/ PdfCall /\ UNCHANGED notPlastic

InitPlastic == RendererIdle /\ RestIdle

SpecPlastic == InitPlastic /\ [][NextPlastic]_vars

(***************************************************************************)
(* BitmapTexture::sample and BitmapTexture::pdf                            *)
(* (core/materials/BitmapTexture.cpp).                                     *)
(***************************************************************************)
TexelIds == 0 .. (TexW * TexH - 1)
(* the bitmaps: every texel weight 0 or 1, not all 0 *)
Bitmaps == {t \in [TexelIds -> {0, 1}] : \E i \in TexelIds : t[i] # 0}
(* the values of each coordinate of u, in [0,1) *)
UValues == {Rat(k, USteps) : k \in 0 .. (USteps - 1)}

(* std::sin((y*PI)/_h): exact for _h = 2, the parabola through 0, 1, 0 otherwise *)
SinPi(y, H) == Rat(4 * y * (H - y), H * H)

(* lines 326-337: weights[idx] *)
FilteredWeight(t, x, y, jacobian) ==
    LET wt == t[y * TexW + x] * 4
              + t[y * TexW + ((x + TexW - 1) % TexW)]
              + t[((y + TexH - 1) % TexH) * TexW + x]
              + t[y * TexW + ((x + 1) % TexW)]
              + t[((y + 1) % TexH) * TexW + x]
        rowWeight == IF jacobian = "MAP_SPHERICAL" THEN SinPi(y, TexH) ELSE ROne
    IN  RMul(Rat(wt, 8), rowWeight)

(* Distribution2D: the weight of the cells of a row before column c, of
   the rows before row r *)
RECURSIVE ColumnCdf(_, _, _, _)
ColumnCdf(t, jacobian, r, c) ==
    IF c = 0 THEN RZero
    ELSE RAdd(ColumnCdf(t, jacobian, r, c - 1), FilteredWeight(t, c - 1, r, jacobian))

RECURSIVE RowCdf(_, _, _)
RowCdf(t, jacobian, r) ==
    IF r = 0 THEN RZero
    ELSE RAdd(RowCdf(t, jacobian, r - 1), ColumnCdf(t, jacobian, r - 1, TexW))

(* Distribution2D::warp: the row whose share of the marginal holds uv.y,
   the column whose share of the row holds uv.x, and uv rescaled to the
   position inside that share *)
Warp(t, jacobian, uv) ==
    LET total == RowCdf(t, jacobian, TexH)
        ty == RMul(uv[2], total)
        row == CHOOSE r \in 0 .. (TexH - 1) :
                  RLeq(RowCdf(t, jacobian, r), ty) /\ RLess(ty, RowCdf(t, jacobian, r + 1))
        rowTotal == ColumnCdf(t, jacobian, row, TexW)
        tx == RMul(uv[1], rowTotal)
        column == CHOOSE c \in 0 .. (TexW - 1) :
                  RLeq(ColumnCdf(t, jacobian, row, c), tx)
                      /\ RLess(tx, ColumnCdf(t, jacobian, row, c + 1))
    IN  [row |-> row, column |-> column,
         uv |-> << RDiv(RSub(tx, ColumnCdf(t, jacobian, row, column)),
                        FilteredWeight(t, column, row, jacobian)),
                   RDiv(RSub(ty, RowCdf(t, jacobian, row)), rowTotal) >>]

(* Distribution2D::pdf: the probability of the cell *)
CellPdf(t, jacobian, row, column) ==
    RDiv(FilteredWeight(t, column, row, jacobian), RowCdf(t, jacobian, TexH))

(* mutant: V is not inverted *)
SampleUvNotInverted(newUv, row, column) ==
    << RDiv(RAdd(newUv[1], << column, 1 >>), << TexW, 1 >>),
       RDiv(RAdd(newUv[2], << row, 1 >>), << TexH, 1 >>) >>

(* line 347 *)
SampleUv(newUv, row, column) ==
    << RDiv(RAdd(newUv[1], << column, 1 >>), << TexW, 1 >>),
       RSub(ROne, RDiv(RAdd(newUv[2], << row, 1 >>), << TexH, 1 >>)) >>

(* mutant: row and column computed from the other coordinate *)
PdfCellSwapped(uv) ==
    [row |-> RTrunc(RMul(uv[1], << TexH, 1 >>)),
     column |-> RTrunc(RMul(RSub(ROne, uv[2]), << TexW, 1 >>))]

(* line 352: the arguments of _distribution[jacobian]->pdf *)
PdfCell(uv) ==
    [row |-> RTrunc(RMul(RSub(ROne, uv[2]), << TexH, 1 >>)),
     column |-> RTrunc(RMul(uv[1], << TexW, 1 >>))]

(* line 352: the values pdf can return; a cell outside the table is an
   out-of-bounds read, any value *)
PdfValues(t, jacobian, cell) ==
    IF cell.row \in 0 .. (TexH - 1) /\ cell.column \in 0 .. (TexW - 1)
    THEN {RMul(CellPdf(t, jacobian, cell.row, cell.column), << TexW * TexH, 1 >>)}
    ELSE {RZero, ROne}

(* BitmapTexture::loadResources: the bitmap is read *)
LoadBitmap ==
    /\ lookup.at = "none"
    /\ texture = TextureNew
    /\ \E t \in Bitmaps : lookup' = [lookup EXCEPT !.at = "loaded", !.texels = t]

(* lines 342-348, called once the distribution of the jacobian is built *)
TextureSampleCall ==
    /\ lookup.at = "loaded"
    /\ \E jacobian \in Jacobians, ux \in UValues, uy \in UValues :
          /\ texture.distribution[jacobian] # 0
          /\ LET wr == Warp(lookup.texels, jacobian, << ux, uy >>)
             IN  lookup' = [lookup EXCEPT !.at = "sampled", !.jacobian = jacobian,
                                          !.u = << ux, uy >>, !.row = wr.row,
                                          !.column = wr.column,
                                          !.uv = SampleUv(wr.uv, wr.row, wr.column)]

(* lines 350-353, for the uv sample returned *)
TexturePdfCall ==
    /\ lookup.at = "sampled"
    /\ LET cell == PdfCell(lookup.uv)
       IN  \E v \in PdfValues(lookup.texels, lookup.jacobian, cell) :
              lookup' = [lookup EXCEPT !.at = "pdf", !.pdfRow = cell.row,
                                       !.pdfColumn = cell.column, !.pdf = v]

notLookup == << rendererVars, textureVars, meshVars, plasticVars, grid >>
notTextureNorLookup == << rendererVars, meshVars, plasticVars, grid >>

(* one thread loads the bitmap, makes it samplable and looks it up *)
NextLookup ==
    \/ LoadBitmap /\ UNCHANGED notLookup
    \/ \E jacobian \in Jacobians :
          lookup.at = "loaded" /\ MakeSamplableEnter(1, jacobian)
              /\ UNCHANGED << notTextureNorLookup, lookup >>
    \/ MakeSamplableCheck(1) /\ UNCHANGED << notTextureNorLookup, lookup >>
    \/ MakeSamplableBuild(1) /\ UNCHANGED << notTextureNorLookup, lookup >>
    \/ TextureSampleCall /\ UNCHANGED notLookup
    \/ TexturePdfCall /\ UNCHANGED notLookup

InitLookup == RendererIdle /\ RestIdle

SpecLookup == InitLookup /\ [][NextLookup]_vars

(***************************************************************************)
(* Renderer::dilateAdaptiveWeights on a variance grid of its own.          *)
(***************************************************************************)
GridSizes == (1 .. MaxGridW) \X (1 .. MaxGridH)
(* the adaptiveWeight of the records, as errorPercentile95 leaves them *)
GridWeights(vw, vh) == [0 .. (vw * vh - 1) -> 0 .. MaxWeight]

(* generateWork line 138 *)
DilateCall ==
    /\ ~grid.dilated
    /\ grid' = [grid EXCEPT !.after = DilateAdaptiveWeights(grid.before, grid.vw, grid.vh),
                            !.dilated = TRUE]

notGrid == << rendererVars, textureVars, meshVars, plasticVars, lookup >>

NextDilate == DilateCall /\ UNCHANGED notGrid

InitDilate ==
    /\ RendererIdle
    /\ TextureIdle /\ MeshIdle /\ PlasticIdle /\ LookupIdle
    /\ \E sz \in GridSizes : \E wt \in GridWeights(sz[1], sz[2]) :
          grid = [vw |-> sz[1], vh |-> sz[2], before |-> wt, after |-> wt, dilated |-> FALSE]

SpecDilate == InitDilate /\ [][NextDilate]_vars

(***************************************************************************)
(* Samples scheduled for the pass, summed over the pixels of the image:    *)
(* renderTile draws nextSampleCount of the pixel's variance cell.          *)
(***************************************************************************)
RECURSIVE RowTotal(_, _)
RowTotal(py, px) ==
    IF px = w THEN 0
    ELSE samples[VariancePixelIndex(px, py, w)].nextSampleCount + RowTotal(py, px + 1)

RECURSIVE RowsTotal(_)
RowsTotal(py) == IF py = h THEN 0 ELSE RowTotal(py, 0) + RowsTotal(py + 1)

ScheduledTotal == RowsTotal(0)

SppCountOfCall == call.sppTo - call.sppFrom
AdaptiveCall == call.n > 0 /\ TakesAdaptiveBranch(enableAdaptive, call.sppFrom)
UniformCall == call.n > 0 /\ ~TakesAdaptiveBranch(enableAdaptive, call.sppFrom)

(* C1: with adaptive sampling off or sppFrom below AdaptiveThreshold,
   generateWork returns true, every record's nextSampleCount is sppTo - sppFrom
   and the samples scheduled over all pixels are (sppTo - sppFrom)*W*H,
   whatever the records held before. *)
C1_UniformBudget ==
    UniformCall =>
        /\ call.ok
        /\ \A c \in DOMAIN samples : samples[c].nextSampleCount = SppCountOfCall
        /\ ScheduledTotal = SppCountOfCall * w * h

C1_Witness ==
    /\ UniformCall
    /\ enableAdaptive
    /\ NumCells(w, h) > 1
    /\ \E c \in DOMAIN samples : samples[c].err > 0
    /\ \E c \in DOMAIN samples : samples[c].sampleIndex > AdaptiveThreshold

(* C2: whenever generateWork(sppFrom, sppTo) with sppTo > sppFrom returns
   true, every record has nextSampleCount >= 1, in the adaptive branch for
   every set of error estimates and every outcome of the rounding draws. *)
C2_AtLeastOneSample ==
    (call.n > 0 /\ call.ok /\ call.sppTo > call.sppFrom) =>
        \A c \in DOMAIN samples : samples[c].nextSampleCount >= 1

C2_Witness ==
    /\ AdaptiveCall
    /\ call.ok
    /\ \E c \in DOMAIN samples : samples[c].nextSampleCount = 1
    /\ \E c \in DOMAIN samples : samples[c].nextSampleCount > 2


(* C3: after the adaptive branch of generateWork the samples scheduled over
   all pixels of the W x H image lie within W*H of sppCount*W*H. *)
C3_AdaptiveTotalWithinWH ==
    (AdaptiveCall /\ call.ok) =>
        Abs(ScheduledTotal - SppCountOfCall * w * h) <= w * h

C3_Witness ==
    /\ AdaptiveCall
    /\ call.ok
    /\ w % VarianceTileSize = 0
    /\ h % VarianceTileSize = 0
    /\ NumCells(w, h) > 1
    /\ ScheduledTotal = SppCountOfCall * w * h
    /\ \E c, d \in DOMAIN samples : samples[c].nextSampleCount # samples[d].nextSampleCount

(***************************************************************************)
(* spec.md section 8, scenario 4.                                          *)
(***************************************************************************)
HotScenario ==
    /\ w = 32
    /\ h = 32
    /\ call.n > 0
    /\ call.sppFrom = 16
    /\ call.sppTo = 32
    /\ \E hot \in DOMAIN samples :
          \A c \in DOMAIN samples : samples[c].err = HotCellErrors(hot)[c]

(* samples a record is given beyond the +1 floor *)
AdaptiveSamplesOf(c) == samples[c].nextSampleCount - 1

RECURSIVE AdaptiveSamplesIn(_, _)
AdaptiveSamplesIn(lo, hi) ==
    IF hi <= lo THEN 0
    ELSE IF hi = lo + 1 THEN AdaptiveSamplesOf(lo)
    ELSE AdaptiveSamplesIn(lo, Half(lo, hi)) + AdaptiveSamplesIn(Half(lo, hi), hi)

BudgetHandedOut == AdaptiveSamplesIn(0, NumCells(w, h))

(* C4 as claimed: in scenario 4 the record with error 10 is given at least
   90% of the adaptive samples handed out over all records. *)
C4_HotRecordGetsMost ==
    HotScenario =>
        \A c \in DOMAIN samples :
            samples[c].err = 1000 => 10 * AdaptiveSamplesOf(c) >= 9 * BudgetHandedOut

(* C4 amended: in scenario 4 the 95th percentile of the errors is 0.01, the
   hot record's weight is clamped to it, and every record, the hot one
   included, is given 15 adaptive samples, 1/64 of the budget of 960. *)
C4_HotRecordIsClamped ==
    HotScenario =>
        /\ call.ok
        /\ BudgetHandedOut = 960
        /\ \A c \in DOMAIN samples :
              /\ samples[c].adaptiveWeight = 1
              /\ 64 * AdaptiveSamplesOf(c) = BudgetHandedOut
              /\ samples[c].nextSampleCount = 16

C4_Witness ==
    /\ HotScenario
    /\ call.ok
    /\ \E c \in DOMAIN samples : samples[c].err = 1000 /\ AdaptiveSamplesOf(c) = 15

(***************************************************************************)
(* The passes of the driver.                                               *)
(***************************************************************************)
PixelX(p) == p % w
PixelY(p) == p \div w

InTile(t, p) ==
    /\ tiles[t].x <= PixelX(p) /\ PixelX(p) < tiles[t].x + tiles[t].w
    /\ tiles[t].y <= PixelY(p) /\ PixelY(p) < tiles[t].y + tiles[t].h

(* position of pixel p in the pixel loops of its tile t *)
OffsetInTile(t, p) == (PixelX(p) - tiles[t].x) + (PixelY(p) - tiles[t].y) * tiles[t].w

(* pixel p has been rendered in the pass of the current group *)
RenderedThisPass(p) ==
    \E t \in TileIds : InTile(t, p) /\ task[t] \in {"running", "done"} /\ OffsetInTile(t, p) < pos[t]

(* startRender has just returned with the tile tasks enqueued *)
PassStarting == hasGroup /\ call.ok /\ \A t \in TileIds : task[t] = "pending"

(* C5: with adaptive sampling on, sppFrom >= AdaptiveThreshold and no record
   with a positive error estimate, startRender's generateWork returns false:
   no tile task is enqueued, the completion callback runs exactly once within
   the call, the driver stays idle and no pixel is written. *)
C5_ConvergedReturn ==
    [][ ( /\ call'.n = call.n + 1
          /\ enableAdaptive
          /\ call'.sppFrom >= AdaptiveThreshold
          /\ \A c \in DOMAIN samples : samples'[c].err = 0 )
        => ( /\ ~call'.ok
             /\ callbacks' = callbacks + 1
             /\ task' = task
             /\ hasGroup' = hasGroup
             /\ pos' = pos
             /\ cam' = cam
             /\ pc' = "idle"
             /\ \A t \in TileIds : task'[t] \notin {"pending", "running"} ) ]_vars

C5_Witness ==
    /\ call.n = 2
    /\ ~call.ok
    /\ hist.converged = 1
    /\ hist.begun = 1
    /\ callbacks = 2
    /\ \A p \in Pixels : cam[p].count > 0

(* C6 as claimed: when a pass starts rendering, each record's sampleIndex is
   the number of samples taken so far for each pixel of its variance cell. *)
C6_SampleIndexIsSamplesTaken ==
    PassStarting =>
        \A p \in Pixels : samples[CellOfPixel(p)].sampleIndex = cam[p].count

(* C6 amended: when a pass starts rendering, each record's sampleIndex is at
   least the number of samples taken so far for each pixel of its variance
   cell, and equal to it when no earlier pass had a tile task dropped by
   abortRender and no earlier startRender returned as converged. *)
C6_SampleIndexCoversSamplesTaken ==
    PassStarting =>
        \A p \in Pixels :
            /\ samples[CellOfPixel(p)].sampleIndex >= cam[p].count
            /\ (hist.cut = 0 /\ hist.converged = 0)
                  => samples[CellOfPixel(p)].sampleIndex = cam[p].count

C6_Witness ==
    /\ PassStarting
    /\ hist.begun = 2
    /\ hist.cut = 1
    /\ \E p \in Pixels : cam[p].count > 0 /\ samples[CellOfPixel(p)].sampleIndex = cam[p].count
    /\ \E p \in Pixels : cam[p].count = 0 /\ samples[CellOfPixel(p)].sampleIndex > 0

StrictlyIncreasing(s) == \A i, j \in DOMAIN s : i < j => s[i] < s[j]

(* C7: the sample indices given to sampler.setup for a pixel are strictly
   increasing over the pixel's history, and those of the current pass are
   record.sampleIndex, +1, ..., + nextSampleCount-1 in that order (the pass
   of the latest startRender, when that call enqueued the tiles). *)
C7_SetupIndicesIncrease ==
    \A p \in Pixels :
        /\ StrictlyIncreasing(setupLog[p])
        /\ (call.ok /\ RenderedThisPass(p)) =>
              LET record == samples[CellOfPixel(p)]
                  n == Len(setupLog[p])
              IN  /\ n >= record.nextSampleCount
                  /\ \A i \in 1 .. record.nextSampleCount :
                        setupLog[p][n - record.nextSampleCount + i] = record.sampleIndex + (i - 1)

C7_Witness ==
    /\ hist.begun = 2
    /\ hist.cut = 1
    /\ \E p \in Pixels :
          /\ call.ok
          /\ RenderedThisPass(p)
          /\ Len(setupLog[p]) >= 4
          /\ samples[CellOfPixel(p)].nextSampleCount >= 2
          /\ Len(setupLog[p]) > samples[CellOfPixel(p)].nextSampleCount

RECURSIVE CountIn(_, _)
CountIn(c, p) ==
    IF p = w * h THEN 0
    ELSE (IF CellOfPixel(p) = c THEN cam[p].count ELSE 0) + CountIn(c, p + 1)

(* C8: the tiles partition the image, and after any number of passes that
   ran to completion every pixel has had one addSamples call per pass, its
   sample count is its cell's nextSampleCount summed over those passes, and
   every record has had one addSample call per sample drawn in its cell. *)
C8_TilesPartitionAndCount ==
    /\ \A p \in Pixels : Cardinality({t \in TileIds : InTile(t, p)}) = 1
    /\ \A t \in TileIds :
          /\ tiles[t].w >= 1 /\ tiles[t].h >= 1
          /\ tiles[t].x + tiles[t].w <= w /\ tiles[t].y + tiles[t].h <= h
    /\ (pc = "idle" /\ hist.cut = 0 /\ \A t \in TileIds : task[t] \in {"none", "done"}) =>
          /\ \A p \in Pixels :
                /\ cam[p].splats = hist.begun
                /\ cam[p].count = sched[CellOfPixel(p)]
          /\ \A c \in DOMAIN samples : samples[c].sampleCount = CountIn(c, 0)

C8_Witness ==
    /\ hist.begun = 2
    /\ hist.cut = 0
    /\ pc = "idle"
    /\ \A t \in TileIds : task[t] = "done"
    /\ Cardinality(TileIds) > 1
    /\ \E p, q \in Pixels : cam[p].count # cam[q].count

(* the tile that contains the top-left pixel of variance cell c *)
OwnerTile(c) ==
    CHOOSE t \in TileIds :
        InTile(t, PixelIndex((c % VarianceW(w)) * VarianceTileSize,
                             (c \div VarianceW(w)) * VarianceTileSize, w))

(* C9: during a pass each record is used by the tile tasks of one tile only,
   the tile that contains the top-left pixel of the record's variance cell. *)
C9_OneTilePerRecord ==
    \A c \in DOMAIN samples : accessedBy[c] \subseteq {OwnerTile(c)}

C9_Witness ==
    /\ \A t \in TileIds : Running(t)
    /\ Cardinality(TileIds) > 1
    /\ \E c, d \in DOMAIN samples :
          accessedBy[c] # {} /\ accessedBy[d] # {} /\ accessedBy[c] # accessedBy[d]

(* C10 as claimed: once the abort flag is set, a tile task in flight starts
   no further pixel of its tile. *)
C10_NoPixelAfterAbort ==
    [][ (aborted /\ aborted') => \A t \in TileIds : pos'[t] = pos[t] ]_vars

(* C10 amended: renderTile reads no cancellation flag; a tile task in flight
   when abort is requested renders every remaining pixel of its tile before
   it returns, and abort only keeps pending tile tasks from starting. *)
C10_TileRunsToItsEnd ==
    \A t \in TileIds :
        /\ task[t] = "done" => pos[t] = TilePixels(t)
        /\ task[t] = "dropped" => pos[t] = 0
        /\ (Running(t) /\ pos[t] < TilePixels(t)) => ENABLED RenderPixel(t)

C10_Witness ==
    /\ aborted
    /\ \E t \in TileIds : task[t] = "done" /\ t \in hist.late /\ pos[t] = TilePixels(t)
    /\ \E t \in TileIds : task[t] = "dropped"

(* abortRender has returned and no pass has been enqueued since *)
AbortReturned == pc = "idle" /\ aborted

(* C11: once abortRender has returned from a call made during a running pass,
   no tile task of that pass is executing or pending (pending ones were
   dropped without rendering a pixel), and until the next startRender no
   SampleRecord and no pixel of the radiance buffer is written. *)
C11_QuietAfterAbort ==
    [][ AbortReturned =>
          /\ \A t \in TileIds : task[t] \in {"done", "dropped"}
          /\ \A t \in TileIds : task[t] = "dropped" =>
                (pos[t] = 0 /\ \A c \in DOMAIN samples : t \notin accessedBy[c])
          /\ (call' = call) =>
                (samples' = samples /\ cam' = cam /\ setupLog' = setupLog /\ task' = task) ]_vars

C11_Witness ==
    /\ AbortReturned
    /\ hist.late # {}
    /\ \E t \in TileIds : task[t] = "dropped"
    /\ \E t \in TileIds : task[t] = "done" /\ pos[t] = TilePixels(t)

(* abortRender is entered, directly or from the destructor, while no tile
   task is pending or running *)
AbortWhileNotRendering == (AbortRender \/ Destructor) /\ GroupDrained

(* C12: abortRender called while no render is in progress (before the first
   startRender, after a completed pass, after a converged return, after an
   earlier abort, or from the destructor) returns normally and changes no
   SampleRecord and no pixel. *)
C12_AbortAlwaysSafe ==
    [][ AbortWhileNotRendering =>
          (pc' # "crashed" /\ samples' = samples /\ cam' = cam /\ task' = task) ]_vars

(* the same with a group in place: every case of C12 but the call made
   before the first startRender *)
C12_AbortSafeWithGroup ==
    [][ (AbortWhileNotRendering /\ hasGroup) =>
          (pc' # "crashed" /\ samples' = samples /\ cam' = cam /\ task' = task) ]_vars

(***************************************************************************)
(* What a pass does as a function of what generateWork chose for it: the   *)
(* calls a sequential walk over the tile would make.                       *)
(***************************************************************************)
(* pixel index of the k-th pixel (from 0) of the pixel loops of tile t *)
PixelAt(t, k) == (tiles[t].x + (k % tiles[t].w)) + (tiles[t].y + (k \div tiles[t].w)) * w

(* the setup calls of pixel p in the pass of the latest call: the pixel index
   and sampleIndex, sampleIndex + 1, ... of its cell's record *)
PassCalls(p) ==
    LET record == samples[CellOfPixel(p)]
    IN  << p, [i \in 1 .. record.nextSampleCount |-> record.sampleIndex + (i - 1)] >>

(* the calls on the sampler of tile t after the first k pixels of the walk *)
RefTileLog(t, k) == [j \in 1 .. k |-> PassCalls(PixelAt(t, j - 1))]

(* the samples of record c given the calls made by the one tile that owns
   the record: those for the pixels of its cell, in the order of the walk *)
RefRecLog(c) ==
    LET InCell(e) == CellOfPixel(e[1]) = c
    IN  SelectSeq(tileLog[OwnerTile(c)], InCell)

(* C13: for the nextSampleCount and sampleIndex generateWork left in the
   records, the sequence of (pixelIndex, sampleIndex) setup calls on every
   tile's sampler, the sequence of samples added to every record and the
   count added to every pixel are those of a sequential walk over the tile,
   whatever worker runs the tile and however the tile tasks interleave. *)
C13_ScheduleIndependent ==
    call.ok =>
        /\ \A t \in TileIds : tileLog[t] = RefTileLog(t, pos[t])
        /\ \A c \in DOMAIN samples : recLog[c] = RefRecLog(c)
        /\ \A p \in Pixels : cam[p].count = Len(setupLog[p])

C13_Witness ==
    /\ call.ok
    /\ hist.begun = 2
    /\ \E t, u \in TileIds :
          /\ t < u /\ Running(t) /\ Running(u) /\ worker[t] > worker[u]
          /\ tileLog[t] # << >> /\ tileLog[u] # << >>
    /\ \E c, d \in DOMAIN samples :
          recLog[c] # << >> /\ recLog[d] # << >> /\ Len(recLog[c]) # Len(recLog[d])

(* C14: for a texture and a jacobian the distribution is built once, however
   many calls of makeSamplable are made and from however many threads: no
   second Distribution2D is constructed and stored. *)
C14_BuiltOnce ==
    \A jacobian \in Jacobians : texture.built[jacobian] <= 1

(* the same for calls that do not overlap: a caller that enters makeSamplable
   while no other thread is inside it finds the distribution and returns *)
C14_RepeatedCallIsNoOp ==
    [][ \A th \in Threads :
          ( /\ texPc[th].at = "check"
            /\ texPc'[th].at # "check"
            /\ texture.distribution[texPc[th].jacobian] # 0 )
          => (texPc'[th].at = "out" /\ texture' = texture) ]_vars

(* C15: in every interleaving of makeSamplable calls with the sampling
   queries, a thread that finds the triangle-area distribution present reads
   the final total area of the prepared geometry, never a zeroed or partly
   accumulated one. *)
C15_TotalAreaPublishedWithTable ==
    [][ \A th \in Threads :
          (meshPc'[th].seen # meshPc[th].seen)
              => meshPc'[th].seen = SumAreas(mesh.tfVerts, NumTris) ]_vars

(* the same while makeSamplable calls never overlap *)
C15_TotalAreaFinalWithoutOverlap ==
    [][ \A th \in Threads :
          (meshPc'[th].seen # meshPc[th].seen /\ ~mesh.overlapped)
              => meshPc'[th].seen = SumAreas(mesh.tfVerts, NumTris) ]_vars

(* C16: cleanupAfterRender releases the acceleration handle, the intersector,
   the transformed vertices and the area-sampling table, so that after
   prepareForRender and makeSamplable (calls that never overlapped) the table
   is the one built from the current transformed geometry and its sum is the
   current total area. *)
C16_TableFollowsGeometry ==
    /\ mesh.tfVerts = 0 =>
          (~mesh.geom /\ ~mesh.intersector /\ mesh.triSampler = << >>)
    /\ (mesh.tfVerts # 0 /\ mesh.sampledSince /\ NoThreadInMesh /\ ~mesh.overlapped) =>
          /\ mesh.triSampler = AreasOf(mesh.tfVerts)
          /\ mesh.totalArea = SumAreas(mesh.tfVerts, NumTris)

(***************************************************************************)
(* C17: whenever PlasticBsdf::sample returns true, the sampledLobe it      *)
(* wrote is a lobe of the requested mask, for every requested mask; and    *)
(* sample returns false when wi.z <= 0.                                    *)
(***************************************************************************)
C17_SampledLobeRequested ==
    /\ returned.sample = "true" =>
          (event.sampledLobe # {} /\ event.sampledLobe \subseteq event.requestedLobe)
    /\ (returned.sample # "none" /\ RLeq(event.wi, RZero)) => returned.sample = "false"

(* what holds: the sampled lobe is requested whenever the mask holds one of
   the two lobes of the material *)
OffersPlasticLobe(mask) ==
    mask \cap {"SpecularReflectionLobe", "DiffuseReflectionLobe"} # {}

C17_SampledLobeRequestedWhenOffered ==
    /\ (returned.sample = "true" /\ OffersPlasticLobe(event.requestedLobe)) =>
          (event.sampledLobe # {} /\ event.sampledLobe \subseteq event.requestedLobe)
    /\ (returned.sample # "none" /\ RLeq(event.wi, RZero)) => returned.sample = "false"

(***************************************************************************)
(* C18: when sample took the diffuse branch for a mask that holds the      *)
(* diffuse lobe, with wi.z > 0 and wo.z > 0, pdf(event) returns the pdf    *)
(* sample wrote and eval(event) is the throughput sample wrote times that  *)
(* pdf.                                                                    *)
(***************************************************************************)
DiffuseSampled ==
    /\ returned.sample = "true"
    /\ event.sampledLobe = {"DiffuseReflectionLobe"}
    /\ "DiffuseReflectionLobe" \in event.requestedLobe
    /\ RLess(RZero, event.wi)
    /\ RLess(RZero, event.wo)

C18_DiffuseSampleEvalPdfAgree ==
    DiffuseSampled =>
        /\ returned.pdfCalled => returned.pdf = event.pdf
        /\ returned.evalCalled => returned.eval = RMul(event.throughput, event.pdf)

C18_Witness ==
    /\ DiffuseSampled
    /\ returned.pdfCalled
    /\ returned.evalCalled
    /\ "SpecularReflectionLobe" \in event.requestedLobe
    /\ bsdf.scaledSigmaA > 0
    /\ event.wi # event.wo

(***************************************************************************)
(* C19: for a bitmap made samplable for a jacobian and every u in [0,1)^2, *)
(* the uv sample returns lies in the unit square, and pdf for that uv      *)
(* looks up the (row, column) cell the warp selected and returns that      *)
(* cell's pdf times W*H.                                                   *)
(***************************************************************************)
InUnitSquare(uv) ==
    /\ RLeq(RZero, uv[1]) /\ RLeq(uv[1], ROne)
    /\ RLeq(RZero, uv[2]) /\ RLeq(uv[2], ROne)

C19_WarpPdfRoundTrip ==
    /\ lookup.at \in {"sampled", "pdf"} => InUnitSquare(lookup.uv)
    /\ lookup.at = "pdf" =>
          /\ lookup.pdfRow = lookup.row
          /\ lookup.pdfColumn = lookup.column
          /\ lookup.pdf = RMul(CellPdf(lookup.texels, lookup.jacobian, lookup.row, lookup.column),
                               << TexW * TexH, 1 >>)

C19_Witness ==
    /\ lookup.at = "pdf"
    /\ lookup.jacobian = "MAP_SPHERICAL"
    /\ lookup.row > 0
    /\ lookup.column > 0
    /\ lookup.uv[2] # << 1, 2 >>
    /\ RLess(RZero, lookup.pdf)

(***************************************************************************)
(* C20: after dilateAdaptiveWeights every cell's weight is at least the    *)
(* largest weight, before the call, of the cell and its 4 edge-adjacent    *)
(* neighbours, and at most the largest weight, before the call, of its     *)
(* 3x3 neighbourhood; no weight decreases and the largest weight of the    *)
(* grid is unchanged.                                                      *)
(***************************************************************************)
GridCells == 0 .. (grid.vw * grid.vh - 1)
CellDistance(a, b) ==
    [dx |-> Abs((a % grid.vw) - (b % grid.vw)),
     dy |-> Abs((a \div grid.vw) - (b \div grid.vw))]
EdgeNeighbourhood(idx) ==
    {n \in GridCells : CellDistance(idx, n).dx + CellDistance(idx, n).dy <= 1}
SquareNeighbourhood(idx) ==
    {n \in GridCells : CellDistance(idx, n).dx <= 1 /\ CellDistance(idx, n).dy <= 1}
LargestOf(wt, cells) == CHOOSE m \in {wt[n] : n \in cells} : \A n \in cells : wt[n] <= m

C20_DilationSpreadsOneCell ==
    grid.dilated =>
        /\ \A idx \in GridCells :
              /\ grid.after[idx] >= LargestOf(grid.before, EdgeNeighbourhood(idx))
              /\ grid.after[idx] <= LargestOf(grid.before, SquareNeighbourhood(idx))
              /\ grid.after[idx] >= grid.before[idx]
        /\ LargestOf(grid.after, GridCells) = LargestOf(grid.before, GridCells)

(* a diagonal neighbour is picked up by one cell and not by another: the
   result is neither the 4-neighbour nor the 3x3 maximum *)
C20_Witness ==
    /\ grid.dilated
    /\ grid.vw = MaxGridW /\ grid.vh = MaxGridH
    /\ \E idx \in GridCells :
          grid.after[idx] > LargestOf(grid.before, EdgeNeighbourhood(idx))
    /\ \E idx \in GridCells :
          grid.after[idx] < LargestOf(grid.before, SquareNeighbourhood(idx))

(***************************************************************************)
(* C21: in the adaptive branch of generateWork, errorPercentile95 indexes  *)
(* the sorted positive errors within bounds and returns 0 only when no     *)
(* record has a positive error; when it returns maxError > 0, after        *)
(* clamping and dilation every adaptiveWeight lies in [0, maxError] and    *)
(* one of them is positive, so totalWeight, the divisor of                 *)
(* distributeAdaptiveSamples, is positive.                                 *)
(***************************************************************************)
NumPositiveErrors == Cardinality({c \in DOMAIN samples : samples[c].err > 0})
TotalWeight == SumWeights(Weights(samples), 0, NumCells(w, h))

C21_PercentileKeepsTotalWeightPositive ==
    AdaptiveCall =>
        /\ NumPositiveErrors > 0 => PercentileIndex(NumPositiveErrors) \in 0 .. (NumPositiveErrors - 1)
        /\ ~call.ok => NumPositiveErrors = 0
        /\ call.ok =>
              /\ ErrorPercentile95(samples) > 0
              /\ \A c \in DOMAIN samples :
                    samples[c].adaptiveWeight \in 0 .. ErrorPercentile95(samples)
              /\ \E c \in DOMAIN samples : samples[c].adaptiveWeight > 0
              /\ TotalWeight > 0

(* the percentile is not the largest error: the index is inside the list
   and a weight was clamped *)
C21_Witness ==
    /\ AdaptiveCall
    /\ call.ok
    /\ PercentileIndex(NumPositiveErrors) < NumPositiveErrors - 1
    /\ \E c \in DOMAIN samples :
          /\ samples[c].err > ErrorPercentile95(samples)
          /\ samples[c].adaptiveWeight = ErrorPercentile95(samples)
    /\ TotalWeight > 0

(* records without error among records with error: the weights that stay 0
   do not make the total 0 *)
C21_SomeWeightsZero ==
    /\ AdaptiveCall
    /\ call.ok
    /\ \E c \in DOMAIN samples : samples[c].adaptiveWeight = 0
    /\ TotalWeight > 0

====
